---- MODULE Spec2Model ----
(***************************************************************************)
(* Rematch_Manager (src/rematch_manager.py): the state of one manager      *)
(* object, its public operations as actions, and the challenge             *)
(* construction as operators.                                              *)
(*                                                                         *)
(* Python values are modelled as follows.                                  *)
(*   - `X | None` is a sequence of length 0 (None) or 1 (the value).       *)
(*   - a player name is a TLA+ string; str.lower() is the table Lower.     *)
(*   - tc_str is a sequence of one-character strings, so that split('+'),  *)
(*     float() and int() are computed character by character.              *)
(*   - the float produced by float(s) is the pair (mantissa, decimals),    *)
(*     standing for mantissa / 10^decimals.                                *)
(***************************************************************************)
EXTENDS Integers, Sequences, FiniteSets, TLC

VARIABLES
    rematch_counts,   \* dict[str, int]: a function whose domain is the keys present
    last_game_info,   \* Game_Information | None
    pending_rematch,  \* str | None
    rematch_offered,  \* bool
    config,           \* config.rematch: delay_seconds, timeout_seconds
    tasks,            \* per game_info, the offer_rematch calls suspended in asyncio.sleep
    ret,              \* the call that returned last: its name, argument and value
    before,           \* the fields as that call found them
    called,           \* history: per suspended call of Recorded, pending_rematch
                      \* when it was called
    since             \* history: the offers that returned True since the last
                      \* accept, decline or clear

vars == <<rematch_counts, last_game_info, pending_rematch, rematch_offered,
          config, tasks, ret, before, called, since>>

-----------------------------------------------------------------------------
(* Bounds of the model *)

\* offers counted per opponent key (rematch_counts is unbounded in the code)
MaxOffers == 2
\* offer_rematch coroutines that may be suspended at the same time
MaxTasks == 2
\* time controls of the parsing specification: minutes in hundredths, increment
MaxHundredths == 500
MaxInc == 2

-----------------------------------------------------------------------------
(* Optional values *)

None == <<>>
Some(x) == <<x>>
Val(o) == o[1]

-----------------------------------------------------------------------------
(* Strings *)

\* self.username, given to the constructor
username == "Bot"

\* str.lower() on the names of the model
Lower(s) ==
    CASE s = "Bot" -> "bot"
      [] s = "BOT" -> "bot"
      [] s = "Alice" -> "alice"
      [] s = "ALICE" -> "alice"
      [] s = "Carl" -> "carl"
      [] OTHER -> s

DigitChars == <<"0", "1", "2", "3", "4", "5", "6", "7", "8", "9">>

IsDigit(c) == \E d \in 1..10 : DigitChars[d] = c

DigitVal(c) == (CHOOSE d \in 1..10 : DigitChars[d] = c) - 1

\* the value of a sequence of digits, most significant first (0 when empty)
RECURSIVE DigitsValue(_)
DigitsValue(s) ==
    IF s = <<>> THEN 0
    ELSE 10 * DigitsValue(SubSeq(s, 1, Len(s) - 1)) + DigitVal(s[Len(s)])

\* str.split(sep): the list of the parts between the separators
RECURSIVE split(_, _)
split(s, sep) ==
    IF \A i \in 1..Len(s) : s[i] # sep THEN <<s>>
    ELSE LET i == CHOOSE k \in 1..Len(s) :
                      s[k] = sep /\ \A j \in 1..(k - 1) : s[j] # sep
         IN <<SubSeq(s, 1, i - 1)>> \o split(SubSeq(s, i + 1, Len(s)), sep)

\* float(s) raises no ValueError: digits with at most one '.', at least one digit
float_ok(s) ==
    /\ \A i \in 1..Len(s) : IsDigit(s[i]) \/ s[i] = "."
    /\ Cardinality({i \in 1..Len(s) : s[i] = "."}) <= 1
    /\ \E i \in 1..Len(s) : IsDigit(s[i])

\* float(s), as [mantissa, decimals]: the digits without the point, and the
\* number of digits after the point
float(s) ==
    LET dots == {i \in 1..Len(s) : s[i] = "."}
        digits == SelectSeq(s, IsDigit)
    IN [mantissa |-> DigitsValue(digits),
        decimals |-> IF dots = {} THEN 0
                     ELSE Len(s) - (CHOOSE i \in dots : TRUE)]

\* int(s) raises no ValueError: one or more digits
int_ok(s) == Len(s) > 0 /\ \A i \in 1..Len(s) : IsDigit(s[i])

int(s) == DigitsValue(s)

RECURSIVE Pow10(_)
Pow10(n) == IF n = 0 THEN 1 ELSE 10 * Pow10(n - 1)

\* The minutes, in hundredths, whose IEEE double times 60.0 is a double just
\* below the exact whole number of seconds (2.05 * 60 = 122.99999999999999);
\* these are all of them up to 20.00 minutes.
DoubleProductBelow == {205, 410, 820, 845, 1615, 1640, 1665, 1690}

\* int(f * 60): the double product, truncated toward zero
int_times_60(f) ==
    LET exact == (f.mantissa * 60) \div Pow10(f.decimals)
        hundredths == IF f.decimals <= 2
                      THEN f.mantissa * Pow10(2 - f.decimals)
                      ELSE -1
    IN IF hundredths \in DoubleProductBelow THEN exact - 1 ELSE exact

\* Variant(value) raises no ValueError: value is a member of the enumeration
VariantValues == {"standard", "chess960", "antichess", "atomic", "crazyhouse",
                  "horde", "kingOfTheHill", "racingKings", "threeCheck",
                  "fromPosition"}

-----------------------------------------------------------------------------
(* Game_Information and Challenge_Request *)

Game_Information(w, b, tc, v, r) ==
    [white_name |-> w, black_name |-> b, tc_str |-> tc, variant |-> v, rated |-> r]

Challenge_Request(opponent, initial, inc, rated, color, variant, timeout) ==
    [opponent_name |-> opponent, initial_time |-> initial, increment |-> inc,
     rated |-> rated, color |-> color, variant |-> variant, timeout |-> timeout]

\* a mutated lookup: the last branch returns a name and not None
get_opponent_name_fallback(game_info) ==
    IF Lower(game_info.white_name) = Lower(username)
    THEN Some(game_info.black_name)
    ELSE Some(game_info.white_name)

\* _get_opponent_name
get_opponent_name(game_info) ==
    IF Lower(game_info.white_name) = Lower(username)
    THEN Some(game_info.black_name)
    ELSE IF Lower(game_info.black_name) = Lower(username)
    THEN Some(game_info.white_name)
    ELSE None

\* a mutated color choice: the color the bot held, not the opposite one
rematch_color_same(game_info) ==
    IF Lower(game_info.white_name) = Lower(username) THEN "WHITE" ELSE "BLACK"

\* _create_rematch_challenge: "Invertir colores"
rematch_color(game_info) ==
    IF Lower(game_info.white_name) = Lower(username) THEN "BLACK" ELSE "WHITE"

\* _create_rematch_challenge: None where the code raises and catches ValueError
create_rematch_challenge(game_info, opponent_name, timeout) ==
    LET parts == split(game_info.tc_str, "+")
    IN IF Len(parts) # 2 THEN None
       ELSE IF ~float_ok(parts[1]) THEN None
       ELSE IF ~int_ok(parts[2]) THEN None
       ELSE IF game_info.variant \notin VariantValues THEN None
       ELSE Some(Challenge_Request(opponent_name, int_times_60(float(parts[1])),
                                   int(parts[2]), game_info.rated,
                                   rematch_color(game_info), game_info.variant,
                                   timeout))

-----------------------------------------------------------------------------
(* Inputs *)

\* Snapshots of finished games: two distinct accounts with non-empty names,
\* the bot on either side or on neither, in any letter case; time controls and
\* variants that parse and that do not.  float and int are modelled on the
\* characters that occur here: digits, '.', '+' and letters.
GameInfos ==
    { Game_Information("Bot", "Alice", <<"3", "+", "2">>, "standard", TRUE),
      Game_Information("ALICE", "bot", <<"0", ".", "5", "+", "0">>, "standard", FALSE),
      Game_Information("Bot", "Carl", <<"5", "+", "3">>, "chess960", TRUE),
      Game_Information("Alice", "Carl", <<"3", "+", "2">>, "standard", TRUE),
      Game_Information("Bot", "Alice", <<"b", "a", "d">>, "standard", TRUE),
      Game_Information("Carl", "BOT", <<"3", "+", "x">>, "standard", FALSE),
      Game_Information("Bot", "Carl", <<"3", "+", "2">>, "shogi", TRUE) }

\* opponent names reported by accept, decline and game-finished events
EventNames == {"ALICE", "Carl"}

\* config.rematch: no delay, or a positive one
Configs == { [delay_seconds |-> d, timeout_seconds |-> 30] : d \in {0, 5} }

\* the sum of f over the set S
RECURSIVE Sum(_, _)
Sum(f, S) ==
    IF S = {} THEN 0
    ELSE LET x == CHOOSE y \in S : TRUE IN f[x] + Sum(f, S \ {x})

-----------------------------------------------------------------------------
(* State *)

\* rematch_counts.get(key, 0)
count_get(counts, key) == IF key \in DOMAIN counts THEN counts[key] ELSE 0

\* rematch_counts[key] = value
count_set(counts, key, value) ==
    [k \in DOMAIN counts \cup {key} |-> IF k = key THEN value ELSE counts[k]]

Returned(op, arg, val) == [op |-> op, arg |-> arg, val |-> val]

\* at_call is pending_rematch as it was when the call was made, which differs
\* from pending_rematch only for a call that was suspended in between; it is
\* None for a suspended call whose history is not kept
Found(counts, info, pending, at_call) ==
    [rematch_counts |-> counts, last_game_info |-> info, pending_rematch |-> pending,
     at_call |-> at_call]

\* the values of pending_rematch
PendingValues == {None} \cup {Some(Lower(n)) : n \in EventNames}

\* the opponent keys offered since the last accept, decline or clear, and the
\* last of them
Since(op, arg, val) ==
    IF op = "offer_rematch" /\ val = TRUE
    THEN LET g == Val(arg)
             key == Lower(IF Lower(g.white_name) = Lower(username)
                          THEN g.black_name ELSE g.white_name)
         IN [last |-> Some(key), keys |-> since.keys \cup {key}]
    ELSE IF op \in {"on_rematch_accepted", "on_rematch_declined",
                    "clear_pending_rematch"}
    THEN [last |-> None, keys |-> {}]
    ELSE since

\* the offers whose suspended calls are followed from call to return: the two
\* snapshots of games against Alice that a challenge can be built from
Recorded ==
    { Game_Information("Bot", "Alice", <<"3", "+", "2">>, "standard", TRUE),
      Game_Information("ALICE", "bot", <<"0", ".", "5", "+", "0">>, "standard", FALSE) }

\* a call returns: it is recorded with the fields as they were in the state
\* its last step started from; an offer_rematch that returns after line 50
\* with a positive delay is one of the suspended calls
Return(op, arg, val) ==
    /\ ret' = Returned(op, arg, val)
    /\ since' = Since(op, arg, val)
    /\ IF /\ op = "offer_rematch" /\ config.delay_seconds > 0
          /\ get_opponent_name(Val(arg)) # None
       THEN IF Val(arg) \in Recorded
            THEN \E p \in PendingValues :
                   /\ called[<<Val(arg), p>>] > 0
                   /\ called' = [called EXCEPT ![<<Val(arg), p>>] = @ - 1]
                   /\ before' = Found(rematch_counts, last_game_info,
                                      pending_rematch, Some(p))
            ELSE /\ called' = called
                 /\ before' = Found(rematch_counts, last_game_info,
                                    pending_rematch, None)
       ELSE /\ called' = called
            /\ before' = Found(rematch_counts, last_game_info, pending_rematch,
                               Some(pending_rematch))

Init ==
    /\ rematch_counts = <<>>
    /\ last_game_info = None
    /\ pending_rematch = None
    /\ rematch_offered = FALSE
    /\ config \in Configs
    /\ tasks = [g \in GameInfos |-> 0]
    /\ ret = Returned("__init__", None, None)
    /\ before = Found(<<>>, None, None, Some(None))
    /\ called = [c \in Recorded \X PendingValues |-> 0]
    /\ since = [last |-> None, keys |-> {}]

\* whether offer_rematch(game_info) will count an offer
counts_offer(game_info) ==
    /\ get_opponent_name(game_info) # None
    /\ create_rematch_challenge(game_info, Val(get_opponent_name(game_info)),
                                config.timeout_seconds) # None

\* the suspended calls that will count an offer for the opponent of game_info
in_flight(game_info) ==
    Sum(tasks, { g \in DOMAIN tasks :
                   /\ counts_offer(g)
                   /\ Lower(Val(get_opponent_name(g)))
                        = Lower(Val(get_opponent_name(game_info))) })

-----------------------------------------------------------------------------
(* Operations *)

\* a mutated decision: no offer once an opponent has been offered a rematch
should_offer_value_limited(game_info) ==
    LET opponent_name == get_opponent_name(game_info)
    IN IF opponent_name = None THEN FALSE
       ELSE IF pending_rematch = Some(Lower(Val(opponent_name))) THEN FALSE
       ELSE count_get(rematch_counts, Lower(Val(opponent_name))) = 0

\* a mutated should_offer_rematch: it refuses while any offer is pending
should_offer_value_any_pending(game_info) ==
    LET opponent_name == get_opponent_name(game_info)
    IN IF opponent_name = None THEN FALSE
       ELSE pending_rematch = None

\* should_offer_rematch: the value returned
should_offer_value(game_info) ==
    LET opponent_name == get_opponent_name(game_info)
    IN IF opponent_name = None THEN FALSE
       ELSE IF pending_rematch = Some(Lower(Val(opponent_name))) THEN FALSE
       ELSE TRUE

should_offer_rematch(game_info) ==
    /\ Return("should_offer_rematch", Some(game_info),
                       should_offer_value(game_info))
    /\ UNCHANGED <<rematch_counts, last_game_info, pending_rematch,
                   rematch_offered, config, tasks>>

\* a mutated offer: it returns False when the opponent is already pending
offer_rematch_after_delay_dedup(game_info, opponent_name) ==
    LET challenge_request ==
            create_rematch_challenge(game_info, opponent_name, config.timeout_seconds)
        opponent_key == Lower(opponent_name)
    IN IF challenge_request = None \/ pending_rematch = Some(opponent_key)
       THEN /\ Return("offer_rematch", Some(game_info), FALSE)
            /\ UNCHANGED <<rematch_counts, last_game_info, pending_rematch,
                           rematch_offered>>
       ELSE /\ rematch_counts' = count_set(rematch_counts, opponent_key,
                                     count_get(rematch_counts, opponent_key) + 1)
            /\ pending_rematch' = Some(opponent_key)
            /\ last_game_info' = Some(game_info)
            /\ rematch_offered' = FALSE
            /\ Return("offer_rematch", Some(game_info), TRUE)

\* a mutated offer: the offer is counted before the challenge is built
offer_rematch_after_delay_count_first(game_info, opponent_name) ==
    LET challenge_request ==
            create_rematch_challenge(game_info, opponent_name, config.timeout_seconds)
        opponent_key == Lower(opponent_name)
    IN /\ rematch_counts' = count_set(rematch_counts, opponent_key,
                                count_get(rematch_counts, opponent_key) + 1)
       /\ IF challenge_request = None
          THEN /\ Return("offer_rematch", Some(game_info), FALSE)
               /\ UNCHANGED <<last_game_info, pending_rematch, rematch_offered>>
          ELSE /\ pending_rematch' = Some(opponent_key)
               /\ last_game_info' = Some(game_info)
               /\ rematch_offered' = FALSE
               /\ Return("offer_rematch", Some(game_info), TRUE)

\* offer_rematch from "Crear challenge" to its return: one step, no await in it
offer_rematch_after_delay(game_info, opponent_name) ==
    LET challenge_request ==
            create_rematch_challenge(game_info, opponent_name, config.timeout_seconds)
        opponent_key == Lower(opponent_name)
    IN IF challenge_request = None
       THEN /\ Return("offer_rematch", Some(game_info), FALSE)
            /\ UNCHANGED <<rematch_counts, last_game_info, pending_rematch,
                           rematch_offered>>
       ELSE /\ rematch_counts' = count_set(rematch_counts, opponent_key,
                                     count_get(rematch_counts, opponent_key) + 1)
            /\ pending_rematch' = Some(opponent_key)
            /\ last_game_info' = Some(game_info)
            /\ rematch_offered' = FALSE
            /\ Return("offer_rematch", Some(game_info), TRUE)

\* a mutated offer_rematch: the offer is counted before the delay, and the
\* pending key and the snapshot are written after it
offer_rematch_counts_before_delay(game_info) ==
    /\ (get_opponent_name(game_info) # None /\ config.delay_seconds > 0) =>
         Sum(tasks, DOMAIN tasks) < MaxTasks
    /\ counts_offer(game_info) =>
         count_get(rematch_counts, Lower(Val(get_opponent_name(game_info))))
           + in_flight(game_info) < MaxOffers
    /\ LET opponent_name == get_opponent_name(game_info)
       IN IF opponent_name = None
          THEN /\ Return("offer_rematch", Some(game_info), FALSE)
               /\ UNCHANGED <<rematch_counts, last_game_info, pending_rematch,
                              rematch_offered, tasks>>
          ELSE IF config.delay_seconds > 0
          THEN /\ tasks' = [tasks EXCEPT ![game_info] = @ + 1]
               /\ called' = IF game_info \in Recorded
                            THEN [called EXCEPT ![<<game_info, pending_rematch>>] = @ + 1]
                            ELSE called
               /\ rematch_counts' =
                    count_set(rematch_counts, Lower(Val(opponent_name)),
                              count_get(rematch_counts, Lower(Val(opponent_name))) + 1)
               /\ UNCHANGED <<last_game_info, pending_rematch,
                              rematch_offered, ret, before, since>>
          ELSE /\ offer_rematch_after_delay(game_info, Val(opponent_name))
               /\ UNCHANGED tasks
    /\ UNCHANGED config

\* a mutated offer_rematch: the snapshot is stored before the delay, and the
\* count and the pending key are written after it
offer_rematch_snapshot_before_delay(game_info) ==
    /\ (get_opponent_name(game_info) # None /\ config.delay_seconds > 0) =>
         Sum(tasks, DOMAIN tasks) < MaxTasks
    /\ counts_offer(game_info) =>
         count_get(rematch_counts, Lower(Val(get_opponent_name(game_info))))
           + in_flight(game_info) < MaxOffers
    /\ LET opponent_name == get_opponent_name(game_info)
       IN IF opponent_name = None
          THEN /\ Return("offer_rematch", Some(game_info), FALSE)
               /\ UNCHANGED <<rematch_counts, last_game_info, pending_rematch,
                              rematch_offered, tasks>>
          ELSE IF config.delay_seconds > 0
          THEN /\ tasks' = [tasks EXCEPT ![game_info] = @ + 1]
               /\ called' = IF game_info \in Recorded
                            THEN [called EXCEPT ![<<game_info, pending_rematch>>] = @ + 1]
                            ELSE called
               /\ last_game_info' = Some(game_info)
               /\ UNCHANGED <<rematch_counts, pending_rematch,
                              rematch_offered, ret, before, since>>
          ELSE /\ offer_rematch_after_delay(game_info, Val(opponent_name))
               /\ UNCHANGED tasks
    /\ UNCHANGED config

\* offer_rematch is called: up to its return or to its suspension in the delay.
\* At most MaxTasks calls are suspended at a time, and an offer that will be
\* counted is started only while the count it leads to stays within MaxOffers.
offer_rematch(game_info) ==
    /\ (get_opponent_name(game_info) # None /\ config.delay_seconds > 0) =>
         Sum(tasks, DOMAIN tasks) < MaxTasks
    /\ counts_offer(game_info) =>
         count_get(rematch_counts, Lower(Val(get_opponent_name(game_info))))
           + in_flight(game_info) < MaxOffers
    /\ LET opponent_name == get_opponent_name(game_info)
       IN IF opponent_name = None
          THEN /\ Return("offer_rematch", Some(game_info), FALSE)
               /\ UNCHANGED <<rematch_counts, last_game_info, pending_rematch,
                              rematch_offered, tasks>>
          ELSE IF config.delay_seconds > 0
          THEN /\ tasks' = [tasks EXCEPT ![game_info] = @ + 1]
               /\ called' = IF game_info \in Recorded
                            THEN [called EXCEPT ![<<game_info, pending_rematch>>] = @ + 1]
                            ELSE called
               /\ UNCHANGED <<rematch_counts, last_game_info, pending_rematch,
                              rematch_offered, ret, before, since>>
          ELSE /\ offer_rematch_after_delay(game_info, Val(opponent_name))
               /\ UNCHANGED tasks
    /\ UNCHANGED config

\* asyncio.sleep is over: a suspended offer_rematch runs to its return (the
\* suspended calls are taken in any order, which includes the order of the timers)
offer_rematch_resume(game_info) ==
    /\ tasks[game_info] > 0
    /\ offer_rematch_after_delay(game_info, Val(get_opponent_name(game_info)))
    /\ tasks' = [tasks EXCEPT ![game_info] = @ - 1]
    /\ UNCHANGED config

\* a mutated accept: the snapshot is dropped and the pending key is kept
on_rematch_accepted_drops_snapshot(opponent_name) ==
    /\ last_game_info' = None
    /\ rematch_offered' = FALSE
    /\ Return("on_rematch_accepted", Some(opponent_name), None)
    /\ UNCHANGED <<rematch_counts, pending_rematch, config, tasks>>

on_rematch_accepted(opponent_name) ==
    /\ pending_rematch' = None
    /\ rematch_offered' = FALSE
    /\ Return("on_rematch_accepted", Some(opponent_name), None)
    /\ UNCHANGED <<rematch_counts, last_game_info, config, tasks>>

\* a mutated decline: the snapshot is cleared as well
on_rematch_declined_clears_snapshot(opponent_name) ==
    /\ pending_rematch' = None
    /\ last_game_info' = None
    /\ rematch_offered' = FALSE
    /\ Return("on_rematch_declined", Some(opponent_name), None)
    /\ UNCHANGED <<rematch_counts, config, tasks>>

\* a mutated decline: the opponent's count is reset
on_rematch_declined_resets_count(opponent_name) ==
    /\ pending_rematch' = None
    /\ rematch_offered' = FALSE
    /\ rematch_counts' = count_set(rematch_counts, Lower(opponent_name), 0)
    /\ Return("on_rematch_declined", Some(opponent_name), None)
    /\ UNCHANGED <<last_game_info, config, tasks>>

on_rematch_declined(opponent_name) ==
    /\ pending_rematch' = None
    /\ rematch_offered' = FALSE
    /\ Return("on_rematch_declined", Some(opponent_name), None)
    /\ UNCHANGED <<rematch_counts, last_game_info, config, tasks>>

\* a mutated on_game_finished: it resolves the pending offer as accept and
\* decline do
on_game_finished_clears_pending(opponent_name) ==
    /\ pending_rematch' = None
    /\ rematch_offered' = FALSE
    /\ Return("on_game_finished", Some(opponent_name), None)
    /\ UNCHANGED <<rematch_counts, last_game_info, config, tasks>>

on_game_finished(opponent_name) ==
    /\ rematch_offered' = FALSE
    /\ Return("on_game_finished", Some(opponent_name), None)
    /\ UNCHANGED <<rematch_counts, last_game_info, pending_rematch, config, tasks>>

\* a mutated clear_pending_rematch: it keeps the snapshot, as accept and
\* decline do
clear_pending_rematch_keeps_snapshot ==
    /\ pending_rematch' = None
    /\ rematch_offered' = FALSE
    /\ Return("clear_pending_rematch", None, None)
    /\ UNCHANGED <<rematch_counts, last_game_info, config, tasks>>

\* a mutated clear_pending_rematch: it also cancels the suspended offers
clear_pending_rematch_cancels_offers ==
    /\ pending_rematch' = None
    /\ last_game_info' = None
    /\ rematch_offered' = FALSE
    /\ tasks' = [g \in DOMAIN tasks |-> 0]
    /\ Return("clear_pending_rematch", None, None)
    /\ UNCHANGED <<rematch_counts, config>>

clear_pending_rematch ==
    /\ pending_rematch' = None
    /\ last_game_info' = None
    /\ rematch_offered' = FALSE
    /\ Return("clear_pending_rematch", None, None)
    /\ UNCHANGED <<rematch_counts, config, tasks>>

\* get_rematch_challenge_request: the value returned
rematch_challenge_request ==
    IF pending_rematch = None \/ last_game_info = None THEN None
    ELSE create_rematch_challenge(Val(last_game_info), Val(pending_rematch),
                                  config.timeout_seconds)

get_rematch_challenge_request ==
    /\ Return("get_rematch_challenge_request", None,
                       rematch_challenge_request)
    /\ UNCHANGED <<rematch_counts, last_game_info, pending_rematch,
                   rematch_offered, config, tasks>>

-----------------------------------------------------------------------------
(* Specifications *)

\* the operations, called in any order by the event loop
Next ==
    \/ \E g \in GameInfos : should_offer_rematch(g)
    \/ \E g \in GameInfos : offer_rematch(g)
    \/ \E g \in GameInfos : offer_rematch_resume(g)
    \/ \E n \in EventNames : on_rematch_accepted(n)
    \/ \E n \in EventNames : on_rematch_declined(n)
    \/ \E n \in EventNames : on_game_finished(n)
    \/ clear_pending_rematch
    \/ get_rematch_challenge_request

Spec == Init /\ [][Next]_vars

-----------------------------------------------------------------------------
(* The time-control parsing on its own: one game, every time control       *)
(* "<minutes>+<increment>" within the bounds, offered with no delay as the *)
(* first call on a new manager, and read back.                             *)

\* the decimal digits of n
RECURSIVE digits_of(_)
digits_of(n) ==
    IF n < 10 THEN <<DigitChars[n + 1]>>
    ELSE digits_of(n \div 10) \o <<DigitChars[(n % 10) + 1]>>

\* h hundredths of a minute as a decimal: "5", "3.5", "2.05"
format_minutes(h) ==
    digits_of(h \div 100) \o
      (IF h % 100 = 0 THEN <<>>
       ELSE IF h % 10 = 0 THEN <<".", DigitChars[((h % 100) \div 10) + 1]>>
       ELSE <<".", DigitChars[((h % 100) \div 10) + 1], DigitChars[(h % 10) + 1]>>)

format_tc(h, inc) == format_minutes(h) \o <<"+">> \o digits_of(inc)

TcGameInfos ==
    { Game_Information("Bot", "Alice", format_tc(h, inc), "standard", TRUE) :
        h \in 0..MaxHundredths, inc \in 0..MaxInc }

InitTc == Init /\ config.delay_seconds = 0

NextTc ==
    \/ ret.op = "__init__" /\ \E g \in TcGameInfos : offer_rematch(g)
    \/ get_rematch_challenge_request
    \/ clear_pending_rematch

SpecTc == InitTc /\ [][NextTc]_vars

-----------------------------------------------------------------------------
(* Properties.  The terms below are those of the description of the        *)
(* manager, stated on the snapshot itself and not through the operators    *)
(* that model the code.                                                    *)

BotIsWhite(g) == Lower(g.white_name) = Lower(username)
BotIsBlack(g) == Lower(g.black_name) = Lower(username)
NeitherIsBot(g) == ~BotIsWhite(g) /\ ~BotIsBlack(g)

\* the opponent as named in the snapshot, and its key
OpponentOf(g) == IF BotIsWhite(g) THEN g.black_name ELSE g.white_name
KeyOf(g) == Lower(OpponentOf(g))

\* the time control has no '+', or a character that is no digit, '.' or '+'
MalformedTc(tc) ==
    \/ \A i \in 1..Len(tc) : tc[i] # "+"
    \/ \E i \in 1..Len(tc) : ~IsDigit(tc[i]) /\ tc[i] \notin {".", "+"}

\* a snapshot of a game of the bot from which no challenge can be built
Malformed(g) ==
    ~NeitherIsBot(g) /\ (MalformedTc(g.tc_str) \/ g.variant \notin VariantValues)

\* a snapshot of a game of the bot from which a challenge can be built
Valid(g) ==
    ~NeitherIsBot(g) /\ ~MalformedTc(g.tc_str) /\ g.variant \in VariantValues

\* the call that returned last is op, with argument g
Called(op, g) == ret.op = op /\ ret.arg = Some(g)

\* the call that returned last left the three fields as it found them
FieldsUnchanged ==
    /\ rematch_counts = before.rematch_counts
    /\ last_game_info = before.last_game_info
    /\ pending_rematch = before.pending_rematch

C2_Original ==
    \A g \in GameInfos :
      (/\ Called("offer_rematch", g)
       /\ before.pending_rematch = Some(KeyOf(g))
       /\ before.last_game_info = Some(g))
      => /\ ret.val = FALSE
         /\ pending_rematch = Some(KeyOf(g))
         /\ rematch_counts = before.rematch_counts

\* C2, amended: an offer of the snapshot that is already pending for its
\* opponent returns True again, keeps the opponent pending and counts one
\* more offer for that opponent.
C2_SecondOfferCounts ==
    \A g \in GameInfos :
      (/\ Called("offer_rematch", g)
       /\ before.pending_rematch = Some(KeyOf(g))
       /\ before.last_game_info = Some(g))
      => /\ ret.val = TRUE
         /\ pending_rematch = Some(KeyOf(g))
         /\ rematch_counts = count_set(before.rematch_counts, KeyOf(g),
                                 count_get(before.rematch_counts, KeyOf(g)) + 1)

C2_Witness ==
    \E g \in GameInfos :
      /\ Called("offer_rematch", g) /\ ret.val = TRUE
      /\ before.pending_rematch = Some(KeyOf(g))
      /\ before.last_game_info = Some(g)
      /\ count_get(rematch_counts, KeyOf(g)) = 2

\* C3: for a snapshot in which neither player is the bot, should_offer_rematch
\* and offer_rematch return False and leave the fields unchanged, and
\* offer_rematch is never suspended in its delay.
C3_UnresolvedOpponent ==
    \A g \in GameInfos :
      NeitherIsBot(g) =>
        /\ tasks[g] = 0
        /\ ~should_offer_value(g)
        /\ (Called("should_offer_rematch", g) \/ Called("offer_rematch", g))
             => ret.val = FALSE /\ FieldsUnchanged

C3_Witness ==
    /\ ret.op = "offer_rematch" /\ NeitherIsBot(Val(ret.arg)) /\ ret.val = FALSE
    /\ pending_rematch # None
    /\ config.delay_seconds > 0

C5_CountsOnlyGrow ==
    /\ \A k \in DOMAIN before.rematch_counts :
         k \in DOMAIN rematch_counts /\ rematch_counts[k] >= before.rematch_counts[k]
    /\ IF ret.op = "offer_rematch" /\ ret.val = TRUE
       THEN rematch_counts =
              count_set(before.rematch_counts, KeyOf(Val(ret.arg)),
                        count_get(before.rematch_counts, KeyOf(Val(ret.arg))) + 1)
       ELSE rematch_counts = before.rematch_counts

C5_Witness ==
    /\ ret.op = "on_rematch_declined"
    /\ count_get(rematch_counts, "alice") = 2
    /\ count_get(rematch_counts, "carl") = 1

\* C6: get_rematch_challenge_request returns None whenever nothing is pending,
\* whatever snapshot is stored; whenever an offer is pending it returns a
\* request for the color the bot did not hold in the stored snapshot; the
\* call changes no field.
C6_PendingRequestColor ==
    /\ pending_rematch = None => rematch_challenge_request = None
    /\ pending_rematch # None =>
         /\ last_game_info # None
         /\ rematch_challenge_request # None
         /\ BotIsWhite(Val(last_game_info))
              => Val(rematch_challenge_request).color = "BLACK"
         /\ BotIsBlack(Val(last_game_info))
              => Val(rematch_challenge_request).color = "WHITE"
    /\ ret.op = "get_rematch_challenge_request"
         => ret.val = rematch_challenge_request /\ FieldsUnchanged

C6_Witness ==
    /\ ret.op = "get_rematch_challenge_request"
    /\ pending_rematch # None
    /\ BotIsBlack(Val(last_game_info))
    /\ Val(ret.val).color = "WHITE"

\* C7, as claimed: while an offer is pending, get_rematch_challenge_request
\* returns a request addressed to the opponent as named in the snapshot, and
\* otherwise equal to the request offer_rematch built from that snapshot.
C7_Original ==
    (ret.op = "get_rematch_challenge_request" /\ pending_rematch # None) =>
      LET g == Val(last_game_info)
          built == Val(create_rematch_challenge(g, Val(get_opponent_name(g)),
                                                config.timeout_seconds))
          got == Val(ret.val)
      IN /\ got.opponent_name = OpponentOf(g)
         /\ got.color = built.color
         /\ got.initial_time = built.initial_time
         /\ got.increment = built.increment
         /\ got.rated = built.rated
         /\ got.variant = built.variant

\* C8: once nothing is pending (after accept, decline or clear),
\* should_offer_rematch is True for every game of the bot, and the next
\* offer_rematch of a valid snapshot returns True, makes its opponent pending
\* and adds 1 to the opponent's count.
C8_EligibleAgain ==
    /\ ret.op \in {"on_rematch_accepted", "on_rematch_declined",
                   "clear_pending_rematch"}
         => \A g \in GameInfos : ~NeitherIsBot(g) => should_offer_value(g)
    /\ \A g \in GameInfos :
         (Called("should_offer_rematch", g) /\ ~NeitherIsBot(g)
            /\ before.pending_rematch = None) => ret.val = TRUE
    /\ \A g \in GameInfos :
         (Called("offer_rematch", g) /\ Valid(g) /\ before.pending_rematch = None)
         => /\ ret.val = TRUE
            /\ pending_rematch = Some(KeyOf(g))
            /\ count_get(rematch_counts, KeyOf(g))
                 = count_get(before.rematch_counts, KeyOf(g)) + 1

\* the same snapshot offered again after a decline or accept: the count is 2
C8_Witness ==
    \E g \in GameInfos :
      /\ Called("offer_rematch", g) /\ ret.val = TRUE
      /\ before.pending_rematch = None
      /\ before.last_game_info = Some(g)
      /\ pending_rematch = Some(KeyOf(g))
      /\ count_get(rematch_counts, KeyOf(g)) = 2

C10_Original ==
    \A h \in 0..MaxHundredths, inc \in 0..MaxInc :
      (/\ ret.op = "get_rematch_challenge_request"
       /\ pending_rematch # None
       /\ Val(last_game_info).tc_str = format_tc(h, inc))
      => /\ ret.val # None
         /\ Val(ret.val).initial_time = (h * 60 + 50) \div 100
         /\ Val(ret.val).increment = inc

\* C11: for a snapshot whose opponent resolves, should_offer_rematch is False
\* exactly when pending_rematch is that opponent's lower-cased name, and True
\* otherwise, whatever the counts, the result and the winner; the call leaves
\* the counts, the snapshot and the pending key as they were.
C11_FalseExactlyWhenPending ==
    \A g \in GameInfos :
      ~NeitherIsBot(g)
      => /\ should_offer_value(g) = (pending_rematch # Some(KeyOf(g)))
         /\ Called("should_offer_rematch", g)
              => /\ ret.val = (before.pending_rematch # Some(KeyOf(g)))
                 /\ FieldsUnchanged

\* should_offer_rematch returned True for an opponent offered twice already,
\* while another opponent is pending
C11_Witness ==
    \E g \in GameInfos :
      /\ Called("should_offer_rematch", g) /\ ~NeitherIsBot(g) /\ ret.val = TRUE
      /\ pending_rematch # None
      /\ count_get(rematch_counts, KeyOf(g)) = MaxOffers

\* C12: on_game_finished, for any name, leaves pending_rematch, last_game_info
\* and rematch_counts as they were; it only resets rematch_offered.
C12_GameFinishedFrame ==
    ret.op = "on_game_finished" => FieldsUnchanged /\ rematch_offered = FALSE

\* the game that finished was against the opponent whose offer is pending
C12_Witness ==
    /\ ret.op = "on_game_finished"
    /\ pending_rematch = Some(Lower(Val(ret.arg)))
    /\ last_game_info # None
    /\ rematch_counts # <<>>

\* C13: clear_pending_rematch can be called in every reachable state; it ends
\* with pending_rematch and last_game_info None and rematch_counts as they
\* were; and a second call right after the first changes no field.
C13_ClearIdempotent ==
    /\ [](ENABLED clear_pending_rematch)
    /\ [](ret.op = "clear_pending_rematch"
           => /\ pending_rematch = None
              /\ last_game_info = None
              /\ rematch_counts = before.rematch_counts)
    /\ [][(ret.op = "clear_pending_rematch" /\ clear_pending_rematch)
           => UNCHANGED <<rematch_counts, last_game_info, pending_rematch,
                          rematch_offered, config, tasks, ret>>]_vars

\* the second of two calls in a row, after offers were counted
C13_Witness ==
    /\ ret.op = "clear_pending_rematch"
    /\ before.pending_rematch = None
    /\ before.last_game_info = None
    /\ rematch_counts # <<>>

\* C14: pending_rematch is set exactly when some offer_rematch has returned
\* True since the most recent on_rematch_accepted, on_rematch_declined or
\* clear_pending_rematch (or since construction), and it is then the
\* lower-cased opponent name of the most recent such offer.
C14_PendingIsLastOffer ==
    /\ pending_rematch = since.last
    /\ pending_rematch # None <=> since.keys # {}

\* two opponents were offered since the last accept, decline or clear, and
\* the later one is pending
C14_Witness ==
    /\ since.keys = {"alice", "carl"}
    /\ since.last = Some("carl")
    /\ pending_rematch = Some("carl")
    /\ ret.op = "on_game_finished"

\* C15: offer_rematch is suspended at one place only, the delay, which is
\* taken only when delay_seconds > 0 and comes before every write: the step
\* into the delay changes none of rematch_counts, last_game_info and
\* pending_rematch, the step out of it runs to the return, and a count is
\* incremented only in a step that also sets that opponent pending and stores
\* the snapshot, so no operation sees the count incremented and the key not set.
C15_WritesAfterDelay ==
    /\ [](config.delay_seconds = 0 => Sum(tasks, DOMAIN tasks) = 0)
    /\ [][\A g \in GameInfos :
            /\ tasks'[g] > tasks[g]
                 => UNCHANGED <<rematch_counts, last_game_info, pending_rematch>>
            /\ tasks'[g] < tasks[g]
                 => ret'.op = "offer_rematch" /\ ret'.arg = Some(g)]_vars
    /\ [][rematch_counts' # rematch_counts
           => /\ ret'.op = "offer_rematch" /\ ret'.val = TRUE
              /\ LET g == Val(ret'.arg)
                 IN /\ rematch_counts' =
                         count_set(rematch_counts, KeyOf(g),
                                   count_get(rematch_counts, KeyOf(g)) + 1)
                    /\ pending_rematch' = Some(KeyOf(g))
                    /\ last_game_info' = Some(g)]_vars

\* an offer has come out of its delay and written the three fields while
\* another call is still suspended
C15_Witness ==
    \E g \in GameInfos :
      /\ Called("offer_rematch", g) /\ ret.val = TRUE
      /\ config.delay_seconds > 0
      /\ Sum(tasks, DOMAIN tasks) > 0
      /\ count_get(rematch_counts, KeyOf(g))
           = count_get(before.rematch_counts, KeyOf(g)) + 1
      /\ before.pending_rematch = None
      /\ pending_rematch = Some(KeyOf(g))

\* C16: with a positive delay, an offer_rematch called while its opponent was
\* not pending and resumed after another offer for the same opponent has set
\* the pending key (the two calls were suspended together) still returns True
\* and counts: rematch_counts for the opponent has risen twice, for one
\* pending offer.
C16_BothOffersCount ==
    \A g \in Recorded :
      (/\ Called("offer_rematch", g)
       /\ config.delay_seconds > 0
       /\ before.at_call # Some(Some(KeyOf(g)))
       /\ before.pending_rematch = Some(KeyOf(g)))
      => /\ ret.val = TRUE
         /\ count_get(rematch_counts, KeyOf(g))
              = count_get(before.rematch_counts, KeyOf(g)) + 1
         /\ count_get(rematch_counts, KeyOf(g)) >= 2
         /\ pending_rematch = Some(KeyOf(g))

\* the race: both calls were made while nothing was pending, both returned
\* True, the count is 2 and one offer is pending
C16_Witness ==
    \E g \in Recorded :
      /\ Called("offer_rematch", g) /\ ret.val = TRUE
      /\ config.delay_seconds > 0
      /\ before.at_call = Some(None)
      /\ before.pending_rematch = Some(KeyOf(g))
      /\ before.rematch_counts = count_set(<<>>, KeyOf(g), 1)
      /\ rematch_counts = count_set(<<>>, KeyOf(g), 2)
      /\ pending_rematch = Some(KeyOf(g))

-----------------------------------------------------------------------------
(* Scheduling: the event loop wakes every coroutine whose asyncio.sleep is
   over, so a suspended offer_rematch is not left suspended for ever *)

\* the offers with a delay, made with the Recorded snapshots, and the events
\* that reset the pending key or arrive while an offer is suspended
InitFair == Init /\ config.delay_seconds > 0

NextFair ==
    \/ \E g \in Recorded : offer_rematch(g)
    \/ \E g \in Recorded : offer_rematch_resume(g)
    \/ \E n \in EventNames : on_rematch_accepted(n)
    \/ \E n \in EventNames : on_rematch_declined(n)
    \/ \E n \in EventNames : on_game_finished(n)
    \/ clear_pending_rematch

Fairness == \A g \in Recorded : WF_vars(offer_rematch_resume(g))

SpecFair == InitFair /\ [][NextFair]_vars /\ Fairness

\* C17: under fair scheduling, an offer_rematch suspended in its delay, with an
\* opponent that resolves and a snapshot a challenge can be built from (the
\* Recorded ones), comes to return True with its opponent pending, whatever
\* is processed during the delay; a suspended call leaves its delay only by
\* that return, so accept, decline, clear and game-finished events cancel none.
C17_SuspendedOfferCompletes ==
    /\ \A g \in Recorded :
         tasks[g] > 0
           ~> (/\ Called("offer_rematch", g) /\ ret.val = TRUE
               /\ pending_rematch = Some(KeyOf(g)))
    /\ [][\A g \in {i \in GameInfos : Valid(i)} :
            tasks'[g] < tasks[g]
              => /\ ret'.op = "offer_rematch" /\ ret'.arg = Some(g)
                 /\ ret'.val = TRUE
                 /\ pending_rematch' = Some(KeyOf(g))]_vars

\* an offer called while its opponent was pending has returned True and set it
\* pending again, after the pending key was reset during its delay
C17_Witness ==
    \E g \in Recorded :
      /\ Called("offer_rematch", g) /\ ret.val = TRUE
      /\ config.delay_seconds > 0
      /\ before.at_call = Some(Some(KeyOf(g)))
      /\ before.pending_rematch = None
      /\ pending_rematch = Some(KeyOf(g))

\* C18, as claimed: on_rematch_accepted and on_rematch_declined with a name
\* whose lower-cased form is not the pending key leave pending_rematch and
\* last_game_info as they were.
C18_Original ==
    (/\ ret.op \in {"on_rematch_accepted", "on_rematch_declined"}
     /\ before.pending_rematch # None
     /\ before.pending_rematch # Some(Lower(Val(ret.arg))))
    => /\ pending_rematch = before.pending_rematch
       /\ last_game_info = before.last_game_info

-----------------------------------------------------------------------------
(* Serialized use: one offer_rematch at a time, each called right after
   should_offer_rematch returned True for the same snapshot *)

offer_rematch_if_should(game_info) ==
    /\ Sum(tasks, DOMAIN tasks) = 0
    /\ ret.op = "should_offer_rematch"
    /\ ret.arg = Some(game_info)
    /\ ret.val = TRUE
    /\ offer_rematch(game_info)

NextSerial ==
    \/ \E g \in GameInfos : should_offer_rematch(g)
    \/ \E g \in GameInfos : offer_rematch_if_should(g)
    \/ \E g \in GameInfos : offer_rematch_resume(g)
    \/ \E n \in EventNames : on_rematch_accepted(n)
    \/ \E n \in EventNames : on_rematch_declined(n)
    \/ \E n \in EventNames : on_game_finished(n)
    \/ clear_pending_rematch

SpecSerial == Init /\ [][NextSerial]_vars

\* C19, as claimed: in serialized use no opponent gets a second successful
\* offer while an earlier offer to that opponent has not been followed by an
\* accept, a decline or a clear: the count of an opponent offered since the
\* last of those does not grow.
C19_Original ==
    [][\A k \in since.keys :
         count_get(rematch_counts', k) = count_get(rematch_counts, k)]_vars

\* C20: in every reachable state, interleaved offers included, when
\* pending_rematch is set last_game_info is the snapshot of the offer that set
\* it: it is stored, and its opponent, lower-cased, is the pending key.
C20_SnapshotOfPendingOffer ==
    pending_rematch # None
    => /\ last_game_info # None
       /\ ~NeitherIsBot(Val(last_game_info))
       /\ KeyOf(Val(last_game_info)) = Val(pending_rematch)
       /\ (ret.op = "offer_rematch" /\ ret.val = TRUE)
            => last_game_info = ret.arg

\* an offer to one opponent has returned while the other opponent was pending
\* and a further offer is still in its delay
C20_Witness ==
    /\ ret.op = "offer_rematch" /\ ret.val = TRUE
    /\ pending_rematch = Some("alice")
    /\ before.pending_rematch = Some("carl")
    /\ KeyOf(Val(before.last_game_info)) = "carl"
    /\ \E g \in GameInfos : tasks[g] > 0 /\ Valid(g) /\ KeyOf(g) = "carl"

====
